---- MODULE Spec2Model ----
(***************************************************************************)
(* A model of pypremis/lib.py: NodeSet, the identifier-keyed container,    *)
(* and PremisRecord, the aggregate of four NodeSets and a filepath.        *)
(*                                                                         *)
(* A Python dict is modelled as the sequence of its [key, value] entries   *)
(* in insertion order.  Python values that are compared with one another  *)
(* are records: a node, a str (PyStr), None, a raised exception, and Unset *)
(* for an attribute that __init__ has not assigned.                        *)
(***************************************************************************)
EXTENDS Integers, Sequences, FiniteSets, TLC

\* ------------------------------------------------------------------ bounds
\* Most add_* calls (direct, from __init__, or from an import) in a behaviour.
MaxCalls == 3
\* Most nodes, over the four keyword lists together, handed to __init__.
MaxInit == 2
\* Most add_* calls in a behaviour of SpecSmall.
MaxSmallCalls == 4
\* Most add_* calls in a behaviour of SpecLookup.
MaxLookupCalls == 2
\* Most keys in the list of a lookup.
MaxKeys == 2

\* ------------------------------------------------------------- input domain
None == [py |-> "None"]
Unset == [py |-> "unset"]
PyStr(s) == [py |-> "str", str |-> s]
ValueError == [py |-> "ValueError"]
KeyError == [py |-> "KeyError"]
TypeError == [py |-> "TypeError"]
\* The exception that tests/premisrecord_tests.py expects of pypremis.lib.
DuplicateIdentifierError == [py |-> "DuplicateIdentifierError"]

Kinds == {"Object", "Event", "Agent", "Rights"}

ID_A == [type |-> "local", value |-> "1"]
ID_B == [type |-> "local", value |-> "x:2"]
ID_C == [type |-> "local:x", value |-> "2"]

\* The identifier lists of the nodes of a kind: an Event carries exactly one
\* identifier, the other kinds one or more.
IdLists(kind) ==
    IF kind = "Event"
    THEN {<<ID_A>>, <<ID_B>>, <<ID_C>>}
    ELSE {<<ID_A>>, <<ID_B>>, <<ID_A, ID_B>>}

MkNode(kind, ids, payload) == [kind |-> kind, ids |-> ids, payload |-> payload]

\* The nodes of a kind; payload stands for the fields other than identifiers:
\* two Events share an identifier and differ in their other fields.
NodesOf(kind) ==
    {MkNode(kind, l, "p") : l \in IdLists(kind)}
    \cup (IF kind = "Event" THEN {MkNode(kind, <<ID_A>>, "q")} ELSE {})

AllNodes == UNION {NodesOf(k) : k \in Kinds}

SeqsUpTo(S, n) == UNION {[1..k -> S] : k \in 0..n}

\* A keyword list argument of __init__: not given (None) or a list.
OptLists(kind, n) ==
    {[given |-> FALSE, items |-> <<>>]} \cup
    {[given |-> TRUE, items |-> s] : s \in SeqsUpTo(NodesOf(kind), n)}

Paths == {PyStr("kitchen-sink.xml")}

\* The documents a path may hold: the nodes of the file, in document order.
DocNodes == {n \in AllNodes : n.ids = <<ID_A>>}
Docs(n) == SeqsUpTo(DocNodes, n)

\* ------------------------------------------------------------------- dict
DictKeys(d) == {d[i].key : i \in 1..Len(d)}

DictHas(d, k) == k \in DictKeys(d)

DictIndex(d, k) == CHOOSE i \in 1..Len(d) : d[i].key = k

DictGet(d, k) == d[DictIndex(d, k)].value

\* d[k] = v: a present key keeps its position and takes the new value, a new
\* key goes last.
DictSet(d, k, v) ==
    IF DictHas(d, k)
    THEN [d EXCEPT ![DictIndex(d, k)] = [key |-> k, value |-> v]]
    ELSE Append(d, [key |-> k, value |-> v])

DictValues(d) == [i \in 1..Len(d) |-> d[i].value]

\* ------------------------------------------------------------------ nodes
\* The accessors of pypremis.nodes: the index-th identifier of a node (from 0).
get_objectIdentifier(node, index) == node.ids[index + 1]
get_eventIdentifier(node, index) == node.ids[index + 1]
get_agentIdentifier(node, index) == node.ids[index + 1]
get_rightsStatementIdentifier(node, index) == node.ids[index + 1]

\* "{}:{}".format(identifier_type, identifier_value)
FormatKey(identifier_type, identifier_value) ==
    identifier_type \o ":" \o identifier_value

\* ---------------------------------------------------------------- NodeSet
NodeSet == [nodes |-> <<>>]

\* self.nodes[key] = node
SetNode(self, key, node) == [self EXCEPT !.nodes = DictSet(@, key, node)]

append(self, node) ==
    IF node.kind = "Object"
    THEN SetNode(self,
                 FormatKey(get_objectIdentifier(node, 0).type,
                           get_objectIdentifier(node, 0).value),
                 node)
    ELSE IF node.kind = "Event"
    THEN SetNode(self,
                 FormatKey(get_eventIdentifier(node, 0).type,
                           get_eventIdentifier(node, 0).value),
                 node)
    ELSE IF node.kind = "Agent"
    THEN SetNode(self,
                 FormatKey(get_agentIdentifier(node, 0).type,
                           get_agentIdentifier(node, 0).value),
                 node)
    ELSE IF node.kind = "Rights"
    THEN SetNode(self,
                 FormatKey(get_rightsStatementIdentifier(node, 0).type,
                           get_rightsStatementIdentifier(node, 0).value),
                 node)
    ELSE self

\* A Python list that is compared with an exception.
PyList(items) == [py |-> "list", items |-> items]

\* get_nodes whose list lookup returns the distinct records found, without
\* repeats and in the registry's order.
get_nodes_Deduplicated(self, identifier) ==
    IF identifier.type = "str"
    THEN IF DictHas(self.nodes, identifier.val)
         THEN DictGet(self.nodes, identifier.val)
         ELSE KeyError
    ELSE IF identifier.type = "list"
    THEN IF \A i \in 1..Len(identifier.val) : DictHas(self.nodes, identifier.val[i])
         THEN PyList(DictValues(SelectSeq(self.nodes,
                         LAMBDA e : \E i \in 1..Len(identifier.val) :
                                        identifier.val[i] = e.key)))
         ELSE KeyError
    ELSE IF identifier.type = "NoneType"
    THEN DictValues(self.nodes)
    ELSE <<>>

\* identifier is [type |-> "str", val |-> key], [type |-> "list", val |-> keys],
\* [type |-> "NoneType"], or of any other type.
get_nodes(self, identifier) ==
    IF identifier.type = "str"
    THEN IF DictHas(self.nodes, identifier.val)
         THEN DictGet(self.nodes, identifier.val)
         ELSE KeyError
    ELSE IF identifier.type = "list"
    THEN IF \A i \in 1..Len(identifier.val) : DictHas(self.nodes, identifier.val[i])
         THEN PyList([i \in 1..Len(identifier.val) |->
                          DictGet(self.nodes, identifier.val[i])])
         ELSE KeyError
    ELSE IF identifier.type = "NoneType"
    THEN DictValues(self.nodes)
    ELSE <<>>

Str(key) == [type |-> "str", val |-> key]
List(keys) == [type |-> "list", val |-> keys]
NoIdentifier == [type |-> "NoneType"]

\* ----------------------------------------------------------- XMLNodeFactory
\* pypremis.factories.XMLNodeFactory(filepath): the nodes of one kind that the
\* document holds, in document order.
find_events(doc) == SelectSeq(doc, LAMBDA n : n.kind = "Event")
find_agents(doc) == SelectSeq(doc, LAMBDA n : n.kind = "Agent")
find_rights(doc) == SelectSeq(doc, LAMBDA n : n.kind = "Rights")
find_objects(doc) == SelectSeq(doc, LAMBDA n : n.kind = "Object")

\* ----------------------------------------------------------- PremisRecord
\* The state of a PremisRecord, as a record m of its attributes, and calls, the
\* log of the add_* calls made on it: which method, its argument, whether it
\* raised, and the registry of that kind before and after the call.
Call(kind, node, before, after) ==
    [kind |-> kind, node |-> node, raised |-> FALSE,
     before |-> before, after |-> after]

add_event(m, event) ==
    [m EXCEPT !.events_list = append(@, event),
              !.calls = Append(@, Call("Event", event, m.events_list,
                                       append(m.events_list, event)))]

add_object(m, obj) ==
    [m EXCEPT !.objects_list = append(@, obj),
              !.calls = Append(@, Call("Object", obj, m.objects_list,
                                       append(m.objects_list, obj)))]

\* add_agent appending to the event registry.
add_agent_IntoEvents(m, agent) ==
    [m EXCEPT !.events_list = append(@, agent),
              !.calls = Append(@, Call("Agent", agent, m.agents_list,
                                       append(m.agents_list, agent)))]

add_agent(m, agent) ==
    [m EXCEPT !.agents_list = append(@, agent),
              !.calls = Append(@, Call("Agent", agent, m.agents_list,
                                       append(m.agents_list, agent)))]

add_rights(m, rights) ==
    [m EXCEPT !.rights_list = append(@, rights),
              !.calls = Append(@, Call("Rights", rights, m.rights_list,
                                       append(m.rights_list, rights)))]

get_event(m, eventID) == None
get_object(m, objID) == None
get_agent(m, agentID) == None
get_rights(m, rightsID) == None

get_event_list(m) == get_nodes(m.events_list, NoIdentifier)
get_object_list(m) == get_nodes(m.objects_list, NoIdentifier)
get_agent_list(m) == get_nodes(m.agents_list, NoIdentifier)
get_rights_list(m) == get_nodes(m.rights_list, NoIdentifier)

get_filepath(m) == m.filepath

set_filepath(m, path) == [m EXCEPT !.filepath = path]

\* for x in nodes: self.add_<kind>(x)
RECURSIVE AddEach(_, _, _)
AddEach(m, kind, nodes) ==
    IF nodes = <<>>
    THEN m
    ELSE AddEach(IF kind = "Event" THEN add_event(m, Head(nodes))
                 ELSE IF kind = "Agent" THEN add_agent(m, Head(nodes))
                 ELSE IF kind = "Rights" THEN add_rights(m, Head(nodes))
                 ELSE add_object(m, Head(nodes)),
                 kind, Tail(nodes))

\* populate_from_file adding the kinds in the order objects, events, agents,
\* rights.
populate_from_file_ObjectsFirst(m, filepath, doc) ==
    IF filepath = None /\ get_filepath(m) = None
    THEN [m |-> m, result |-> ValueError]
    ELSE LET m1 == AddEach(m, "Object", find_objects(doc))
             m2 == AddEach(m1, "Event", find_events(doc))
             m3 == AddEach(m2, "Agent", find_agents(doc))
             m4 == AddEach(m3, "Rights", find_rights(doc))
         IN  [m |-> m4, result |-> None]

\* doc is what the factory finds at the path. The result is the state left
\* behind and what the call returned or raised.
populate_from_file(m, filepath, doc) ==
    IF filepath = None /\ get_filepath(m) = None
    THEN [m |-> m, result |-> ValueError]
    ELSE LET m1 == AddEach(m, "Event", find_events(doc))
             m2 == AddEach(m1, "Agent", find_agents(doc))
             m3 == AddEach(m2, "Rights", find_rights(doc))
             m4 == AddEach(m3, "Object", find_objects(doc))
         IN  [m |-> m4, result |-> None]

\* Python's truth value of a str-or-None and of a list-or-None.
TruthyStr(s) == s # None /\ s # PyStr("")
TruthyList(l) == l.given /\ Len(l.items) > 0

Unconstructed ==
    [events_list |-> Unset, objects_list |-> Unset, agents_list |-> Unset,
     rights_list |-> Unset, filepath |-> Unset, calls |-> <<>>]

\* ConfigurationError without its first disjunct: both sources are accepted.
ConfigurationError_NeitherOnly(objects, events, agents, rights, frompath) ==
    LET any == TruthyList(objects) \/ TruthyList(events)
               \/ TruthyList(agents) \/ TruthyList(rights)
    IN  ~TruthyStr(frompath) /\ ~any

ConfigurationError(objects, events, agents, rights, frompath) ==
    LET any == TruthyList(objects) \/ TruthyList(events)
               \/ TruthyList(agents) \/ TruthyList(rights)
    IN  (TruthyStr(frompath) /\ any) \/ (~TruthyStr(frompath) /\ ~any)

\* PremisRecord(objects, events, agents, rights, frompath)
PremisRecord(objects, events, agents, rights, frompath, doc) ==
    IF ConfigurationError(objects, events, agents, rights, frompath)
    THEN [m |-> Unconstructed, result |-> ValueError]
    ELSE LET m0 == [events_list |-> NodeSet, objects_list |-> NodeSet,
                    agents_list |-> NodeSet, rights_list |-> NodeSet,
                    filepath |-> None, calls |-> <<>>]
         IN  IF TruthyStr(frompath)
             THEN populate_from_file([m0 EXCEPT !.filepath = frompath], None, doc)
             ELSE LET m1 == IF TruthyList(objects)
                            THEN AddEach(m0, "Object", objects.items) ELSE m0
                      m2 == IF TruthyList(events)
                            THEN AddEach(m1, "Event", events.items) ELSE m1
                      m3 == IF TruthyList(agents)
                            THEN AddEach(m2, "Agent", agents.items) ELSE m2
                      m4 == IF TruthyList(rights)
                            THEN AddEach(m3, "Rights", rights.items) ELSE m3
                  IN  [m |-> m4, result |-> None]

\* ----------------------------------------------- iteration, equality, export
\* The value of self.nodes.values(), a dict view and not a list.
dict_values(items) == [py |-> "dict_values", items |-> items]
PyBool(b) == [py |-> "bool", val |-> b]

\* x + y: the concatenation of two lists; a dict view has no + and raises.
PyAdd(x, y) ==
    IF x.py = "list" /\ y.py = "list"
    THEN PyList(x.items \o y.items)
    ELSE TypeError

\* get_object_list() + get_event_list() + get_rights_list() + get_agent_list()
AllLists(m) ==
    PyAdd(PyAdd(PyAdd(dict_values(get_object_list(m)),
                      dict_values(get_event_list(m))),
                dict_values(get_rights_list(m))),
          dict_values(get_agent_list(m)))

\* Iterating a PremisRecord: the nodes yielded, or the exception raised.
__iter__(m) ==
    IF AllLists(m) = TypeError
    THEN TypeError
    ELSE [py |-> "generator", items |-> AllLists(m).items]

\* isinstance(other, PremisRecord)
IsPremisRecord(other) == "events_list" \in DOMAIN other

\* self == other: True, False, or the exception raised.
__eq__(self, other) ==
    IF ~IsPremisRecord(other)
    THEN PyBool(FALSE)
    ELSE IF __iter__(self) = TypeError
    THEN TypeError
    ELSE IF __iter__(self).items # <<>> /\ __iter__(other) = TypeError
    THEN TypeError
    ELSE IF \E i \in 1..Len(__iter__(self).items) :
                \A j \in 1..Len(__iter__(other).items) :
                    __iter__(other).items[j] # __iter__(self).items[i]
    THEN PyBool(FALSE)
    ELSE IF __iter__(other) = TypeError
    THEN TypeError
    ELSE IF \E j \in 1..Len(__iter__(other).items) :
                \A i \in 1..Len(__iter__(self).items) :
                    __iter__(self).items[i] # __iter__(other).items[j]
    THEN PyBool(FALSE)
    ELSE PyBool(TRUE)

\* entry.toXML() of pypremis.nodes, and the factory's reading of an element.
TagOf(kind) ==
    IF kind = "Object" THEN "premis:object"
    ELSE IF kind = "Event" THEN "premis:event"
    ELSE IF kind = "Agent" THEN "premis:agent"
    ELSE "premis:rights"

KindOf(tag) == CHOOSE kind \in {"Object", "Event", "Agent", "Rights"} : TagOf(kind) = tag

toXML(node) == [tag |-> TagOf(node.kind), identifiers |-> node.ids, text |-> node.payload]
fromXML(element) == MkNode(KindOf(element.tag), element.identifiers, element.text)

to_tree(m) ==
    IF __iter__(m) = TypeError
    THEN TypeError
    ELSE [py |-> "ElementTree",
          tag |-> "premis:premis",
          attrib |-> [xmlns_premis |-> "http://www.loc.gov/premis/v3",
                      xmlns_xsi |-> "http://www.w3.org/2001/XMLSchema-instance",
                      version |-> "3.0"],
          children |-> [i \in 1..Len(__iter__(m).items) |-> toXML(__iter__(m).items[i])]]

\* tree.write(targetpath): the document written, read back by the factory.
write_to_file(m) ==
    IF to_tree(m) = TypeError
    THEN TypeError
    ELSE [py |-> "file",
          doc |-> [i \in 1..Len(to_tree(m).children) |-> fromXML(to_tree(m).children[i])]]

\* ------------------------------------------------------------------ state
VARIABLES
    lifecycle,     \* "uninitialized", "failed" (__init__ raised) or "populated"
    events_list, objects_list, agents_list, rights_list, filepath,
    calls,         \* the log of add_* calls
    last           \* the last call made by the caller: op, arguments, result

vars == <<lifecycle, events_list, objects_list, agents_list, rights_list,
          filepath, calls, last>>

Self ==
    [events_list |-> events_list, objects_list |-> objects_list,
     agents_list |-> agents_list, rights_list |-> rights_list,
     filepath |-> filepath, calls |-> calls]

Install(m) ==
    /\ events_list' = m.events_list
    /\ objects_list' = m.objects_list
    /\ agents_list' = m.agents_list
    /\ rights_list' = m.rights_list
    /\ filepath' = m.filepath
    /\ calls' = m.calls

NoArgs == [objects |-> "None", events |-> "None", agents |-> "None",
           rights |-> "None", frompath |-> None]

LastCall(op, node, args, doc, result) ==
    [op |-> op, node |-> node, args |-> args, doc |-> doc,
     start |-> Len(calls), result |-> result]

Init ==
    /\ lifecycle = "uninitialized"
    /\ events_list = Unset
    /\ objects_list = Unset
    /\ agents_list = Unset
    /\ rights_list = Unset
    /\ filepath = Unset
    /\ calls = <<>>
    /\ last = [op |-> "none", node |-> None, args |-> NoArgs, doc |-> <<>>,
               start |-> 0, result |-> None]

\* What the caller passed for a keyword list: None, [] or a list of nodes.
Shape(l) == IF ~l.given THEN "None" ELSE IF l.items = <<>> THEN "empty" ELSE "nodes"

Construct ==
    /\ lifecycle = "uninitialized"
    /\ \E objects \in OptLists("Object", MaxInit) :
       \E events \in OptLists("Event", MaxInit - Len(objects.items)) :
       \E agents \in OptLists("Agent",
                              MaxInit - Len(objects.items) - Len(events.items)) :
       \E rights \in OptLists("Rights",
                              MaxInit - Len(objects.items) - Len(events.items)
                                      - Len(agents.items)) :
       \E frompath \in {None, PyStr("")} \cup Paths :
       \E doc \in IF ConfigurationError(objects, events, agents, rights, frompath)
                     \/ ~TruthyStr(frompath)
                  THEN {<<>>} ELSE Docs(MaxCalls) :
          LET r == PremisRecord(objects, events, agents, rights, frompath, doc)
          IN  /\ Install(r.m)
              /\ lifecycle' = IF r.result = None THEN "populated" ELSE "failed"
              /\ last' = LastCall("__init__", None,
                                  [objects |-> Shape(objects),
                                   events |-> Shape(events),
                                   agents |-> Shape(agents),
                                   rights |-> Shape(rights),
                                   frompath |-> frompath],
                                  doc, r.result)

AddEventOf(nodes, max) ==
    /\ lifecycle = "populated"
    /\ Len(calls) < max
    /\ \E event \in nodes :
          /\ Install(add_event(Self, event))
          /\ last' = LastCall("add_event", event, NoArgs, <<>>, None)
    /\ UNCHANGED lifecycle

AddEvent == AddEventOf(NodesOf("Event"), MaxCalls)

AddObjectOf(nodes, max) ==
    /\ lifecycle = "populated"
    /\ Len(calls) < max
    /\ \E obj \in nodes :
          /\ Install(add_object(Self, obj))
          /\ last' = LastCall("add_object", obj, NoArgs, <<>>, None)
    /\ UNCHANGED lifecycle

AddObject == AddObjectOf(NodesOf("Object"), MaxCalls)

AddAgentOf(nodes, max) ==
    /\ lifecycle = "populated"
    /\ Len(calls) < max
    /\ \E agent \in nodes :
          /\ Install(add_agent(Self, agent))
          /\ last' = LastCall("add_agent", agent, NoArgs, <<>>, None)
    /\ UNCHANGED lifecycle

AddAgent == AddAgentOf(NodesOf("Agent"), MaxCalls)

AddRightsOf(nodes, max) ==
    /\ lifecycle = "populated"
    /\ Len(calls) < max
    /\ \E rights \in nodes :
          /\ Install(add_rights(Self, rights))
          /\ last' = LastCall("add_rights", rights, NoArgs, <<>>, None)
    /\ UNCHANGED lifecycle

AddRights == AddRightsOf(NodesOf("Rights"), MaxCalls)

PopulateFromFile ==
    /\ lifecycle = "populated"
    /\ \E path \in {None} \cup Paths :
       \E doc \in IF path = None /\ filepath = None
                  THEN {<<>>} ELSE Docs(MaxCalls - Len(calls)) :
          LET r == populate_from_file(Self, path, doc)
          IN  /\ Install(r.m)
              /\ last' = LastCall("populate_from_file", None,
                                  [NoArgs EXCEPT !.frompath = path],
                                  doc, r.result)
    /\ UNCHANGED lifecycle

Next ==
    \/ Construct
    \/ AddEvent
    \/ AddObject
    \/ AddAgent
    \/ AddRights
    \/ PopulateFromFile

Spec == Init /\ [][Next]_vars

\* --------------------------------------------------------------------------
\* The same PremisRecord with fewer nodes and one more add_* call, so that all
\* four registries get filled, and with set_filepath.
SmallNodes(kind) ==
    {MkNode(kind, <<ID_A>>, "p")}
    \cup (IF kind = "Event" THEN {MkNode(kind, <<ID_B>>, "p")} ELSE {})

SmallLists(kind) ==
    {[given |-> FALSE, items |-> <<>>]}
    \cup {[given |-> TRUE, items |-> <<n>>] : n \in SmallNodes(kind)}

LookupKeys == {FormatKey(ID_A.type, ID_A.value), FormatKey(ID_B.type, ID_B.value)}

SmallConstruct ==
    /\ lifecycle = "uninitialized"
    /\ \E objects \in SmallLists("Object") :
       \E events \in SmallLists("Event") :
       \E agents \in SmallLists("Agent") :
       \E rights \in SmallLists("Rights") :
          LET r == PremisRecord(objects, events, agents, rights, None, <<>>)
          IN  /\ Install(r.m)
              /\ lifecycle' = IF r.result = None THEN "populated" ELSE "failed"
              /\ last' = LastCall("__init__", None,
                                  [objects |-> Shape(objects),
                                   events |-> Shape(events),
                                   agents |-> Shape(agents),
                                   rights |-> Shape(rights),
                                   frompath |-> None],
                                  <<>>, r.result)

SmallAddEvent == AddEventOf(SmallNodes("Event"), MaxSmallCalls)
SmallAddObject == AddObjectOf(SmallNodes("Object"), MaxSmallCalls)
SmallAddAgent == AddAgentOf(SmallNodes("Agent"), MaxSmallCalls)
SmallAddRights == AddRightsOf(SmallNodes("Rights"), MaxSmallCalls)

SetFilepath ==
    /\ lifecycle = "populated"
    /\ \E path \in {None} \cup Paths :
          /\ Install(set_filepath(Self, path))
          /\ last' = LastCall("set_filepath", None,
                              [NoArgs EXCEPT !.frompath = path], <<>>, None)
    /\ UNCHANGED lifecycle

\* <kind>_list.get_nodes(keys) with a list of keys.
Lookup ==
    /\ lifecycle = "populated"
    /\ \E kind \in Kinds : \E keys \in SeqsUpTo(LookupKeys, MaxKeys) :
          last' = LastCall("get_nodes", None, [kind |-> kind, keys |-> keys], <<>>,
                           get_nodes(IF kind = "Event" THEN events_list
                                     ELSE IF kind = "Object" THEN objects_list
                                     ELSE IF kind = "Agent" THEN agents_list
                                     ELSE rights_list,
                                     List(keys)))
    /\ UNCHANGED <<lifecycle, events_list, objects_list, agents_list,
                   rights_list, filepath, calls>>

SmallNext ==
    \/ SmallConstruct
    \/ SmallAddEvent
    \/ SmallAddObject
    \/ SmallAddAgent
    \/ SmallAddRights
    \/ SetFilepath

SpecSmall == Init /\ [][SmallNext]_vars

\* --------------------------------------------------------------------------
\* A PremisRecord of a few nodes whose registries are looked up with lists of
\* keys.
LookupAddEvent == AddEventOf(SmallNodes("Event"), MaxLookupCalls)
LookupAddObject == AddObjectOf(SmallNodes("Object"), MaxLookupCalls)
LookupAddAgent == AddAgentOf(SmallNodes("Agent"), MaxLookupCalls)
LookupAddRights == AddRightsOf(SmallNodes("Rights"), MaxLookupCalls)

LookupNext ==
    \/ SmallConstruct
    \/ LookupAddEvent
    \/ LookupAddObject
    \/ LookupAddAgent
    \/ LookupAddRights
    \/ Lookup

SpecLookup == Init /\ [][LookupNext]_vars

\* ================================================================== claims
Registry(kind) ==
    IF kind = "Event" THEN events_list
    ELSE IF kind = "Object" THEN objects_list
    ELSE IF kind = "Agent" THEN agents_list
    ELSE rights_list

\* The key under which a registry looks an identifier (type, value) up.
KeyOf(id) == FormatKey(id.type, id.value)

\* One of the node's identifiers is registered in the registry ns.
Collides(ns, node) ==
    \E i \in 1..Len(node.ids) : DictHas(ns.nodes, KeyOf(node.ids[i]))

Range(f) == {f[i] : i \in DOMAIN f}

\* The add_* calls of a kind that completed without raising, in call order.
Completed(kind) == SelectSeq(calls, LAMBDA c : c.kind = kind /\ ~c.raised)

\* C1: an add_* call (direct or from __init__) whose record has an identifier
\* already registered in that kind's registry raises DuplicateIdentifierError.
C1_DuplicateRaises ==
    \A j \in 1..Len(calls) :
        Collides(calls[j].before, calls[j].node) => calls[j].raised

\* C2: an add_* call whose record has an identifier already registered leaves
\* the registry (records, order, mapping) exactly as it was before the call.
C2_AllOrNothing ==
    \A j \in 1..Len(calls) :
        Collides(calls[j].before, calls[j].node)
            => calls[j].after = calls[j].before

\* C3: once populated, every listed record stays listed and every registered
\* identifier keeps resolving to the same record, over every step.
C3_OnlyAdded ==
    [][lifecycle = "populated" =>
        \A kind \in Kinds :
            /\ Range(DictValues(Registry(kind).nodes))
                   \subseteq Range(DictValues(Registry(kind)'.nodes))
            /\ \A key \in DictKeys(Registry(kind).nodes) :
                   get_nodes(Registry(kind)', Str(key))
                       = get_nodes(Registry(kind), Str(key))]_vars

\* C4: a record with two or more identifiers is, right after its successful
\* insertion, returned by the lookup of each of its identifiers.
C4_EveryIdentifierResolves ==
    \A j \in 1..Len(calls) :
        (~calls[j].raised /\ Len(calls[j].node.ids) >= 2)
            => \A i \in 1..Len(calls[j].node.ids) :
                   get_nodes(calls[j].after, Str(KeyOf(calls[j].node.ids[i])))
                       = calls[j].node

\* C5: in each of the four registries every mapped identifier resolves to
\* exactly one stored record, and every identifier of every stored record
\* (not only its first) is in the mapping.
C5_RegistryInvariant ==
    lifecycle = "populated" =>
        \A kind \in Kinds :
            LET d == Registry(kind).nodes
            IN  /\ \A key \in DictKeys(d) :
                       Cardinality({i \in 1..Len(d) : d[i].key = key}) = 1
                /\ \A n \in Range(DictValues(d)) :
                       \A i \in 1..Len(n.ids) : DictHas(d, KeyOf(n.ids[i]))

get_by_kind(kind, m, identifier) ==
    IF kind = "Event" THEN get_event(m, identifier)
    ELSE IF kind = "Object" THEN get_object(m, identifier)
    ELSE IF kind = "Agent" THEN get_agent(m, identifier)
    ELSE get_rights(m, identifier)

\* C6: get_object/get_event/get_agent/get_rights(identifier) returns the record
\* registered under the identifier, and not-found (None) exactly when none is.
C6_GetReturnsRegistered ==
    lifecycle = "populated" =>
        \A kind \in Kinds : \A id \in {ID_A, ID_B, ID_C} :
            LET d == Registry(kind).nodes
                got == get_by_kind(kind, Self, KeyOf(id))
            IN  /\ DictHas(d, KeyOf(id)) => got = DictGet(d, KeyOf(id))
                /\ (got = None) <=> ~DictHas(d, KeyOf(id))

list_by_kind(kind, m) ==
    IF kind = "Event" THEN get_event_list(m)
    ELSE IF kind = "Object" THEN get_object_list(m)
    ELSE IF kind = "Agent" THEN get_agent_list(m)
    ELSE get_rights_list(m)

\* C7: the list of a kind is as long as the number of add_* calls of that kind
\* that completed without raising.
C7_ListCountsCompletedAdds ==
    lifecycle = "populated" =>
        \A kind \in Kinds :
            Len(list_by_kind(kind, Self)) = Len(Completed(kind))

\* C8: the list of a kind gives the stored records in the order of their add_*
\* calls: a record listed before another was also added before it.
C8_ListInCallOrder ==
    lifecycle = "populated" =>
        \A kind \in Kinds :
            LET l == list_by_kind(kind, Self)
                c == Completed(kind)
            IN  \A i \in 1..Len(l) : \A j \in (i + 1)..Len(l) :
                    \E a \in 1..Len(c) : \E b \in (a + 1)..Len(c) :
                        c[a].node = l[i] /\ c[b].node = l[j]

\* What __init__ was given: a path (non-empty), record sequences (at least one
\* non-empty list).
PathSupplied == last.args.frompath \notin {None, PyStr("")}
ListsSupplied ==
    "nodes" \in {last.args.objects, last.args.events,
                 last.args.agents, last.args.rights}

\* C9: __init__ raises ValueError exactly when neither or both of a path and
\* record sequences are supplied (an empty list or an empty path supplies
\* nothing); it raises before any registry exists and before any add or import,
\* and no PremisRecord results.
C9_ExactlyOneSource ==
    last.op = "__init__" =>
        /\ (last.result = ValueError) <=> (PathSupplied <=> ListsSupplied)
        /\ last.result = ValueError =>
               /\ lifecycle = "failed"
               /\ Self = Unconstructed
        /\ last.result # ValueError => lifecycle = "populated"

\* __init__ was given both a path and a non-empty list, and raised.
C9_Witness ==
    /\ last.op = "__init__"
    /\ PathSupplied /\ ListsSupplied
    /\ last.result = ValueError
    /\ lifecycle = "failed"

\* The last call was an import that returned.
Imported ==
    /\ last.result = None
    /\ \/ last.op = "populate_from_file"
       \/ last.op = "__init__" /\ PathSupplied

ImportRank(kind) ==
    IF kind = "Event" THEN 1
    ELSE IF kind = "Agent" THEN 2
    ELSE IF kind = "Rights" THEN 3
    ELSE 4

\* C10: an import adds every event of the document, then every agent, then
\* every rights record, then every object, whatever the document's order.
C10_ImportOrder ==
    Imported =>
        LET seg == SubSeq(calls, last.start + 1, Len(calls))
        IN  /\ Len(seg) = Len(last.doc)
            /\ \A kind \in Kinds :
                   Cardinality({i \in 1..Len(seg) : seg[i].kind = kind})
                       = Cardinality({i \in 1..Len(last.doc) :
                                          last.doc[i].kind = kind})
            /\ \A i \in 1..Len(seg) : seg[i].node.kind = seg[i].kind
            /\ \A i \in 1..Len(seg) : \A j \in (i + 1)..Len(seg) :
                   ImportRank(seg[i].kind) <= ImportRank(seg[j].kind)

\* An import of a document that holds an object before an agent before an event.
C10_Witness ==
    /\ Imported
    /\ Len(last.doc) = 3
    /\ last.doc[1].kind = "Object"
    /\ last.doc[2].kind = "Agent"
    /\ last.doc[3].kind = "Event"
    /\ Len(calls) = last.start + 3

\* The last call was an import (from __init__ or populate_from_file) that got
\* as far as reading the document.
ImportRan ==
    /\ last.result # ValueError
    /\ \/ last.op = "populate_from_file"
       \/ last.op = "__init__" /\ PathSupplied

\* The records that the import order yields: events, agents, rights, objects.
ImportSequence(doc) ==
    find_events(doc) \o find_agents(doc) \o find_rights(doc) \o find_objects(doc)

\* The first position of the import sequence whose record has the identifier
\* of an earlier record of its kind in that sequence, or 0.
FirstDuplicate(recs) ==
    LET dup == {j \in 1..Len(recs) :
                   \E i \in 1..(j - 1) :
                       /\ recs[i].kind = recs[j].kind
                       /\ Range(recs[i].ids) \cap Range(recs[j].ids) # {}}
    IN  IF dup = {} THEN 0 ELSE CHOOSE j \in dup : \A k \in dup : j <= k

\* C11: an import (into a PremisRecord that holds nothing yet) that meets a
\* duplicate identifier raises DuplicateIdentifierError at that record and
\* is not rolled back: the add_* calls that completed are those of
\* the records before it, and nothing the importer yields after it is added.
C11_ImportAbortsAtDuplicate ==
    (ImportRan /\ last.start = 0 /\ FirstDuplicate(ImportSequence(last.doc)) > 0) =>
        LET recs == ImportSequence(last.doc)
            d == FirstDuplicate(recs)
        IN  /\ last.result = DuplicateIdentifierError
            /\ Len(Completed("Event")) + Len(Completed("Agent"))
                   + Len(Completed("Rights")) + Len(Completed("Object")) = d - 1
            /\ \A kind \in Kinds :
                   Range(list_by_kind(kind, Self))
                       = {recs[i] : i \in {k \in 1..(d - 1) : recs[k].kind = kind}}

\* The stored records in the order Object, Event, Rights, Agent, each kind in
\* its registry's order.
StoredInExportOrder ==
    DictValues(objects_list.nodes) \o DictValues(events_list.nodes)
        \o DictValues(rights_list.nodes) \o DictValues(agents_list.nodes)

\* C12: iterating a populated PremisRecord yields every stored record once, in
\* the order Object, Event, Rights, Agent and in registry order within a kind,
\* and to_tree gives a root with one child per stored record in that order.
C12_IterationAndExportOrder ==
    lifecycle = "populated" =>
        /\ __iter__(Self) = [py |-> "generator", items |-> StoredInExportOrder]
        /\ to_tree(Self) # TypeError
        /\ to_tree(Self).children
               = [i \in 1..Len(StoredInExportOrder) |-> toXML(StoredInExportOrder[i])]

NoList == [given |-> FALSE, items |-> <<>>]
ListOf(node) == [given |-> TRUE, items |-> <<node>>]

\* PremisRecords to compare with: Self, and one built from one or two nodes.
OtherRecords ==
    {Self}
    \cup {PremisRecord(NoList, ListOf(e), NoList, NoList, None, <<>>).m :
              e \in NodesOf("Event")}
    \cup {PremisRecord(ListOf(o), ListOf(e), NoList, NoList, None, <<>>).m :
              o \in NodesOf("Object"), e \in NodesOf("Event")}

AllRecords(m) ==
    Range(DictValues(m.objects_list.nodes)) \cup Range(DictValues(m.events_list.nodes))
        \cup Range(DictValues(m.rights_list.nodes))
        \cup Range(DictValues(m.agents_list.nodes))

\* C13: a == b is True exactly when a and b hold the same records by value
\* (so equality is reflexive and symmetric), and a == x is False for an x that
\* is no PremisRecord.
C13_EqualityIsSetEquivalence ==
    lifecycle = "populated" =>
        /\ __eq__(Self, Self) = PyBool(TRUE)
        /\ \A b \in OtherRecords :
               /\ __eq__(Self, b) = PyBool(AllRecords(Self) = AllRecords(b))
               /\ __eq__(b, Self) = __eq__(Self, b)
        /\ __eq__(Self, PyStr("kitchen-sink.xml")) = PyBool(FALSE)

\* The records of a document have pairwise distinct identifiers within a kind.
DistinctIdentifiers(doc) ==
    \A i \in 1..Len(doc) : \A j \in (i + 1)..Len(doc) :
        doc[i].kind = doc[j].kind => Range(doc[i].ids) \cap Range(doc[j].ids) = {}

\* C14: a PremisRecord imported from a document with distinct identifiers,
\* exported and imported again from the export, equals the first one.
C14_RoundTrip ==
    (last.op = "__init__" /\ Imported /\ DistinctIdentifiers(last.doc)) =>
        /\ write_to_file(Self) # TypeError
        /\ LET again == PremisRecord(NoList, NoList, NoList, NoList,
                                     PyStr("kitchen-sink.xml"),
                                     write_to_file(Self).doc)
           IN  /\ again.result = None
               /\ __eq__(Self, again.m) = PyBool(TRUE)
               /\ __eq__(again.m, Self) = PyBool(TRUE)

\* C15: identifiers are the same registry key only if their types are equal and
\* their values are equal: an add_* call of a record that shares no (type,
\* value) identifier with a stored record leaves that record stored and stores
\* the new one, also when a type or a value contains ':'.
C15_DistinctIdentifiersNeverCollide ==
    \A j \in 1..Len(calls) :
        \A n \in Range(DictValues(calls[j].before.nodes)) :
            Range(n.ids) \cap Range(calls[j].node.ids) = {}
                => /\ n \in Range(DictValues(calls[j].after.nodes))
                   /\ calls[j].node \in Range(DictValues(calls[j].after.nodes))
                   /\ Len(calls[j].after.nodes) = Len(calls[j].before.nodes) + 1

AddOp(kind) ==
    IF kind = "Event" THEN "add_event"
    ELSE IF kind = "Object" THEN "add_object"
    ELSE IF kind = "Agent" THEN "add_agent"
    ELSE "add_rights"

\* C16: an add_* call changes at most the registry of its own kind: the other
\* three registries and the filepath stay as they were; and whether its record
\* is new depends on its own registry alone: a record whose key its registry
\* lacks is stored as one more entry, whatever the other registries hold.
C16_AddTouchesOwnRegistryOnly ==
    [][\A kind \in Kinds :
          (last'.op = AddOp(kind) /\ Len(calls') = Len(calls) + 1) =>
              /\ \A other \in Kinds \ {kind} : Registry(other)' = Registry(other)
              /\ filepath' = filepath
              /\ calls'[Len(calls')].kind = kind
              /\ calls'[Len(calls')].before = Registry(kind)
              /\ calls'[Len(calls')].after = Registry(kind)'
              /\ ~DictHas(Registry(kind).nodes, KeyOf(last'.node.ids[1])) =>
                     /\ Len(Registry(kind)'.nodes) = Len(Registry(kind).nodes) + 1
                     /\ get_nodes(Registry(kind)', Str(KeyOf(last'.node.ids[1])))
                            = last'.node]_vars

\* After an add_* call, each of the four registries holds a record under the
\* identifier ("local", "1") and the filepath is the one that was set.
C16_Witness ==
    /\ last.op \in {AddOp(kind) : kind \in Kinds}
    /\ filepath \in Paths
    /\ \A kind \in Kinds :
           /\ Len(Registry(kind).nodes) = 1
           /\ get_nodes(Registry(kind), Str(KeyOf(ID_A))) = MkNode(kind, <<ID_A>>, "p")

\* C17: a lookup with a list of keys that are all registered returns a list of
\* the same length whose k-th element is the record under the k-th key; with a
\* key that is not registered it raises instead of returning a partial list;
\* and it leaves the registries unchanged.
C17_ListLookup ==
    [][last'.op = "get_nodes" =>
          LET reg == Registry(last'.args.kind)
              keys == last'.args.keys
              got == last'.result
          IN  /\ UNCHANGED <<events_list, objects_list, agents_list, rights_list,
                             filepath, calls>>
              /\ IF \A k \in 1..Len(keys) : DictHas(reg.nodes, keys[k])
                 THEN /\ got.py = "list"
                      /\ Len(got.items) = Len(keys)
                      /\ \A k \in 1..Len(keys) :
                             got.items[k] = get_nodes(reg, Str(keys[k]))
                 ELSE got = KeyError]_vars

\* A lookup of two different registered keys returned their two records.
C17_Witness ==
    /\ last.op = "get_nodes"
    /\ Len(last.args.keys) = 2
    /\ last.args.keys[1] # last.args.keys[2]
    /\ last.result.py = "list"
    /\ last.result.items = <<get_nodes(Registry(last.args.kind), Str(last.args.keys[1])),
                             get_nodes(Registry(last.args.kind), Str(last.args.keys[2]))>>
    /\ last.result.items[1] # last.result.items[2]

====
